---- MODULE Spec2Model ----
(***************************************************************************)
(* A model of sfrmaker's SFRData (src/sfrmaker/sfrdata.py): the reach      *)
(* table, the segment table and the operations that renumber them, derive  *)
(* the reach routing (outreach) and compute the reach slopes.              *)
(*                                                                         *)
(* A table is a sequence of rows in DataFrame row order.  An operation is  *)
(* an operator from a dataset record [rd, sd, cache, err] to the dataset   *)
(* it leaves behind; err names the exception that ended it ("none" when    *)
(* it returned), and the tables are the ones the exception left in place.  *)
(* Slopes are exact rationals <<numerator, denominator>>.                  *)
(***************************************************************************)
EXTENDS Integers, Sequences, FiniteSets, TLC

VARIABLES
    reach_data,     \* self.reach_data: rows [rno, iseg, ireach, outseg, outreach, strtop, rchlen, slope]
    segment_data,   \* self.segment_data: rows [per, nseg, outseg]
    cache,          \* the routing caches _segment_routing, _rno_routing, _paths, _reach_paths, _routing
    pc,             \* "input": tables handed to the constructor; "ready": constructed; "failed": __init__ raised
    call,           \* the last call made: [op, err, args]
    edits           \* how many times the caller has edited a table directly

vars == <<reach_data, segment_data, cache, pc, call, edits>>

(***************************************************************************)
(* Bounds of the model.                                                    *)
(***************************************************************************)
MaxReaches == 3
MaxSegs == 3
MaxPeriods == 2
MaxEdits == 1

(***************************************************************************)
(* Rational numbers <<n, d>> with d > 0, in lowest terms.                  *)
(***************************************************************************)
Abs(x) == IF x < 0 THEN -x ELSE x

RECURSIVE Gcd(_, _)
Gcd(a, b) == IF b = 0 THEN a ELSE Gcd(b, a % b)

Frac(n, d) ==
    LET s == IF d < 0 THEN -1 ELSE 1
        g == Gcd(Abs(n), Abs(d))
    IN  <<(s * n) \div g, (s * d) \div g>>

FracLess(a, b) == a[1] * b[2] < b[1] * a[2]

(***************************************************************************)
(* Python dict(zip(keys, values)): a later pair replaces an earlier one    *)
(* with the same key.                                                      *)
(***************************************************************************)
Max(S) == CHOOSE x \in S : \A y \in S : y <= x

Range(s) == {s[i] : i \in 1..Len(s)}

DictZip(keys, values) ==
    [k \in Range(keys) |-> values[Max({i \in 1..Len(keys) : keys[i] = k})]]

Column(table, name) == [i \in 1..Len(table) |-> table[i][name]]

Min(S) == CHOOSE x \in S : \A y \in S : x <= y

None == [some |-> FALSE]

Some(v) == [some |-> TRUE, val |-> v]

(***************************************************************************)
(* DataFrame.sort_values(by=[...]) on two keys: a stable sort (lexsort).   *)
(* A row's place is the number of rows that sort before it, a tie going to *)
(* the row that came first.                                                *)
(***************************************************************************)
ReachBefore(a, b) ==
    a.iseg < b.iseg \/ (a.iseg = b.iseg /\ a.ireach < b.ireach)

SegBefore(a, b) ==
    a.per < b.per \/ (a.per = b.per /\ a.nseg < b.nseg)

SortReaches(rd) ==
    LET n == Len(rd)
        place(i) == 1 + Cardinality({j \in 1..n :
                        \/ ReachBefore(rd[j], rd[i])
                        \/ (~ReachBefore(rd[i], rd[j]) /\ j < i)})
    IN  [p \in 1..n |-> rd[CHOOSE i \in 1..n : place(i) = p]]

SortSegments(sd) ==
    LET n == Len(sd)
        place(i) == 1 + Cardinality({j \in 1..n :
                        \/ SegBefore(sd[j], sd[i])
                        \/ (~SegBefore(sd[i], sd[j]) /\ j < i)})
    IN  [p \in 1..n |-> sd[CHOOSE i \in 1..n : place(i) = p]]

\* segment_data.loc[segment_data.per == 0] / groupby('per').get_group(0)
Period0(sd) == SelectSeq(sd, LAMBDA row : row.per = 0)

(***************************************************************************)
(* sfrmaker.checks and sfrmaker.routing are not among the source files;    *)
(* these follow the interface contracts of the specification.              *)
(***************************************************************************)
\* valid_rnos(values): the values, as a set, are exactly {1..len(values)}.
valid_rnos(rnos) == Range(rnos) = 1..Len(rnos)

\* valid_nsegs(nseg, outseg, increasing): nseg is 1..N dense and, with
\* increasing, every outseg that is not a sink or a lake exceeds its nseg.
valid_nsegs(nseg, outseg, increasing) ==
    /\ Range(nseg) = 1..Len(nseg)
    /\ increasing =>
           \A i \in 1..Len(nseg) : outseg[i] > 0 => outseg[i] > nseg[i]

\* The ids of a column in the order of their first occurrence.
DistinctInOrder(ids) ==
    LET first == {i \in 1..Len(ids) : \A j \in 1..(i - 1) : ids[j] # ids[i]}
    IN  [p \in 1..Cardinality(first) |->
            ids[CHOOSE i \in first : Cardinality({j \in first : j < i}) = p - 1]]

\* The member of a set of one member: what a statement leaves is worked
\* out once and handed to the next statement.
Only(S) == CHOOSE x \in S : TRUE

RemoveAt(s, i) == [p \in 1..(Len(s) - 1) |-> IF p < i THEN s[p] ELSE s[p + 1]]

\* A topological order of the ids: the next id numbered is the first one,
\* in input order, that no id still to be numbered routes to.
RECURSIVE TopologicalOrder(_, _, _)
TopologicalOrder(todo, dest, order) ==
    IF todo = <<>> THEN [ok |-> TRUE, order |-> order]
    ELSE LET ready == {i \in 1..Len(todo) :
                          \A j \in 1..Len(todo) : dest[todo[j]] # todo[i]}
         IN  IF ready = {} THEN [ok |-> FALSE, order |-> order]
             ELSE Only({TopologicalOrder(rest, dest, numbered) :
                          rest \in {RemoveAt(todo, Min(ready))},
                          numbered \in {Append(order, todo[Min(ready)])}})

\* renumber_segments(ids, destinations): [ok, r]; r maps each id to its new
\* number 1..N; ok is FALSE (RoutingError) when the ids route in a cycle.
renumber_segments(nseg, outseg) ==
    LET dest == [s \in Range(nseg) |-> outseg[Min({i \in 1..Len(nseg) : nseg[i] = s})]]
    IN  Only({[ok |-> t.ok,
               r  |-> [s \in Range(t.order) |->
                          CHOOSE n \in 1..Len(t.order) : t.order[n] = s]] :
                 t \in {TopologicalOrder(ids, d, <<>>) :
                           ids \in {DistinctInOrder(nseg)}, d \in {dest}}})

\* r[s] of the mapping: 0 and the lake ids (negative) are kept as they are.
HasNewId(r, s) == s <= 0 \/ s \in DOMAIN r

\* Mutant of NewId: the mapping is not applied.
NewIdUnchanged(r, s) == s

NewId(r, s) == IF s <= 0 THEN s ELSE r[s]

(***************************************************************************)
(* The operations of SFRData, on a dataset db = [rd, sd, cache, err].      *)
(***************************************************************************)
Raise(db, e) == [db EXCEPT !.err = e]

\* Mutant of repair_outsegs: nothing is repaired.
repair_outsegs_nothing(db) == db

\* SFRData.repair_outsegs
repair_outsegs(db) ==
    LET sd    == db.sd
        nsegs == Range(Column(sd, "nseg"))
        isasegment(i) == sd[i].outseg \in nsegs \/ sd[i].outseg < 0
    IN  [db EXCEPT !.sd = [i \in 1..Len(sd) |->
                              IF isasegment(i) THEN sd[i]
                              ELSE [sd[i] EXCEPT !.outseg = 0]]]

\* SFRData.reset_segments
reset_segments(db) ==
    LET sd  == db.sd
        rd  == db.rd
        rn  == renumber_segments(Column(sd, "nseg"), Column(sd, "outseg"))
        r   == rn.r
        sd1 == [i \in 1..Len(sd) |-> [sd[i] EXCEPT !.nseg = NewId(r, sd[i].nseg)]]
        sd2 == [i \in 1..Len(sd) |-> [sd1[i] EXCEPT !.outseg = NewId(r, sd[i].outseg)]]
        rd1 == [i \in 1..Len(rd) |-> [rd[i] EXCEPT !.iseg = NewId(r, rd[i].iseg)]]
        rd2 == [i \in 1..Len(rd) |-> [rd1[i] EXCEPT !.outseg = NewId(r, rd[i].outseg)]]
        sd3 == SortSegments(sd2)
    IN  IF ~rn.ok THEN Raise(db, "RoutingError")
        ELSE IF \E i \in 1..Len(sd) : ~HasNewId(r, sd[i].outseg)
        THEN Raise([db EXCEPT !.sd = sd1], "KeyError")
        ELSE IF \E i \in 1..Len(rd) : ~HasNewId(r, rd[i].iseg)
        THEN Raise([db EXCEPT !.sd = sd2], "KeyError")
        ELSE IF \E i \in 1..Len(rd) : ~HasNewId(r, rd[i].outseg)
        THEN Raise([db EXCEPT !.sd = sd2, !.rd = rd1], "KeyError")
        ELSE IF \E i \in 1..Len(sd3) : sd3[i].per = 0 /\ sd3[i].nseg # i
        THEN Raise([db EXCEPT !.sd = sd3, !.rd = rd2], "AssertionError")
        ELSE [db EXCEPT !.sd = sd3, !.rd = SortReaches(rd2)]

\* The concatenation of 1..counts[s] over the period-0 segment rows, in row order.
RECURSIVE ReachNumbers(_, _)
ReachNumbers(nsegs, counts) ==
    IF nsegs = <<>> THEN <<>>
    ELSE [k \in 1..counts[Head(nsegs)] |-> k] \o ReachNumbers(Tail(nsegs), counts)

\* Mutant of reset_reaches: the assignment of a column of the wrong length
\* is not caught.
reset_reaches_uncaught(db) ==
    LET rd     == SortReaches(db.rd)
        sd0    == Period0(db.sd)
        nsegs  == Column(sd0, "nseg")
        isegs  == Range(Column(rd, "iseg"))
        reach_counts == [s \in 1..Max(isegs \cup {0}) |->
                            Cardinality({i \in 1..Len(rd) : rd[i].iseg = s})]
        ireach == ReachNumbers(nsegs, reach_counts)
    IN  IF \E i \in 1..Len(nsegs) : nsegs[i] \notin DOMAIN reach_counts
        THEN Raise([db EXCEPT !.rd = rd], "KeyError")
        ELSE IF nsegs = <<>>
        THEN Raise([db EXCEPT !.rd = rd], "KeyError")
        ELSE IF Len(ireach) # Len(rd)
        THEN Raise([db EXCEPT !.rd = rd], "ValueError")
        ELSE [db EXCEPT !.rd = [i \in 1..Len(rd) |-> [rd[i] EXCEPT !.ireach = ireach[i]]]]

\* SFRData.reset_reaches
reset_reaches(db) ==
    LET rd     == SortReaches(db.rd)
        sd0    == Period0(db.sd)
        nsegs  == Column(sd0, "nseg")
        isegs  == Range(Column(rd, "iseg"))
        \* np.bincount(iseg)[1:], keyed 1..max(iseg)
        reach_counts == [s \in 1..Max(isegs \cup {0}) |->
                            Cardinality({i \in 1..Len(rd) : rd[i].iseg = s})]
        ireach == ReachNumbers(nsegs, reach_counts)
    IN  IF \E i \in 1..Len(nsegs) : nsegs[i] \notin DOMAIN reach_counts
        THEN Raise([db EXCEPT !.rd = rd], "KeyError")
        ELSE IF nsegs = <<>>          \* get_group(0): there is no such group
        THEN Raise([db EXCEPT !.rd = rd], "KeyError")
        ELSE IF Len(ireach) # Len(rd)
        THEN [db EXCEPT !.rd = rd]          \* try: ... except: the column is left as it was
        ELSE [db EXCEPT !.rd = [i \in 1..Len(rd) |-> [rd[i] EXCEPT !.ireach = ireach[i]]]]

\* Mutant of RoutingGraph: no key is added for the outlets.
RoutingGraphNoSinks(keys, values) == DictZip(keys, values)

\* The mapping the SFRData.segment_routing property builds.
RoutingGraph(keys, values) ==
    LET graph   == DictZip(keys, values)
        outlets == Range(values) \ Range(keys)
    IN  [k \in (DOMAIN graph) \cup outlets |->
            IF k \in DOMAIN graph THEN graph[k] ELSE 0]

\* SFRData.segment_routing: _segment_routing is never assigned, so the graph
\* is rebuilt on every read and kept in _routing.
segment_routing(db) ==
    LET sd0 == Period0(db.sd)
    IN  RoutingGraph(Column(sd0, "nseg"), Column(sd0, "outseg"))

\* Mutant of NumberReaches: the numbering starts at 0.
NumberReachesFromZero(rd) == [i \in 1..Len(rd) |-> [rd[i] EXCEPT !.rno = i - 1]]

\* reach_data['rno'] = np.arange(1, len(reach_data) + 1)
NumberReaches(rd) == [i \in 1..Len(rd) |-> [rd[i] EXCEPT !.rno = i]]

\* SFRData._valid_rnos
ValidRnos(rd) == valid_rnos(Column(rd, "rno"))

\* Row i of the sorted reach table is the last reach of its segment.
AtSegmentEnd(rd, i) == i = Len(rd) \/ rd[i + 1].ireach = 1

\* The lookups outseg[iseg[i]] and reach1IDs[nextseg] of row i: one of them
\* has no such key (KeyError).
NextReachFails(rd, outseg, reach1IDs, i) ==
    /\ AtSegmentEnd(rd, i)
    /\ \/ rd[i].iseg \notin DOMAIN outseg
       \/ /\ outseg[rd[i].iseg] > 0
          /\ outseg[rd[i].iseg] \notin DOMAIN reach1IDs

\* Mutant of NextReachId: the last reach of every segment is made an outlet.
NextReachIdNoRouting(rd, outseg, reach1IDs, i) ==
    IF AtSegmentEnd(rd, i) THEN 0 ELSE rd[i + 1].rno

\* nextrchid of row i of the sorted reach table.
NextReachId(rd, outseg, reach1IDs, i) ==
    IF AtSegmentEnd(rd, i)
    THEN IF outseg[rd[i].iseg] > 0
         THEN reach1IDs[outseg[rd[i].iseg]]
         ELSE 0
    ELSE rd[i + 1].rno

\* SFRData.set_outreaches
set_outreaches(db) ==
    LET rd0 == SortReaches(db.rd)
        sd0 == SortSegments(db.sd)
        rd1 == IF ValidRnos(rd0) THEN rd0 ELSE NumberReaches(rd0)
        db1 == reset_reaches([db EXCEPT !.rd = rd1, !.sd = sd0])
        db2 == repair_outsegs(db1)
        rd  == db2.rd
        outseg == segment_routing(db2)
        db3 == [db2 EXCEPT !.cache._routing = Some(outseg)]
        first == SelectSeq(rd, LAMBDA row : row.ireach = 1)
        reach1IDs == DictZip(Column(first, "iseg"), Column(first, "rno"))
        outreach == [i \in 1..Len(rd) |-> NextReachId(rd, outseg, reach1IDs, i)]
    IN  IF db1.err # "none" THEN db1
        ELSE IF \E i \in 1..Len(rd) : NextReachFails(rd, outseg, reach1IDs, i)
        THEN Raise(db3, "KeyError")
        ELSE [db3 EXCEPT !.rd = [i \in 1..Len(rd) |-> [rd[i] EXCEPT !.outreach = outreach[i]]]]

RECURSIVE SumSeq(_)
SumSeq(s) == IF s = <<>> THEN 0 ELSE Head(s) + SumSeq(Tail(s))

\* The downstream elevation get_slopes gives a reach that has no outreach.
NoData == -9999

\* Mutant of AssignSlope: the elevations are lowered as the slopes are written.
AssignSlopeAndLower(rd, slopes) ==
    [i \in 1..Len(rd) |-> [rd[i] EXCEPT !.slope = slopes[i], !.strtop = @ - 10]]

\* self.reach_data['slope'] = slopes
AssignSlope(rd, slopes) == [i \in 1..Len(rd) |-> [rd[i] EXCEPT !.slope = slopes[i]]]

\* Mutant of ClampSlope: no maximum is applied.
ClampSlopeNoMaximum(s, minimum_slope, maximum_slope) ==
    IF FracLess(s, minimum_slope) THEN minimum_slope ELSE s

\* slopes[slopes < minimum_slope] = minimum_slope; slopes[slopes > maximum_slope] = maximum_slope
ClampSlope(s, minimum_slope, maximum_slope) ==
    LET s1 == IF FracLess(s, minimum_slope) THEN minimum_slope ELSE s
    IN  IF FracLess(maximum_slope, s1) THEN maximum_slope ELSE s1

\* Mutant of RawSlope: a negative length is divided by as well.
RawSlopeByAnyLength(elev, dnelev, dist, k, default_slope) ==
    IF dnelev[k] # NoData /\ dist[k] # 0
    THEN Frac(elev[k] - dnelev[k], dist[k])
    ELSE default_slope

\* The unclamped slope of the reach numbered k.
RawSlope(elev, dnelev, dist, k, default_slope) ==
    IF dnelev[k] # NoData /\ dist[k] > 0
    THEN Frac(elev[k] - dnelev[k], dist[k])
    ELSE default_slope

\* Mutant of RoutingSet: nothing is asked of the outreach column.
RoutingSetAlways(rd) == TRUE

\* assert rd.outreach.sum() > 0
RoutingSet(rd) == SumSeq(Column(rd, "outreach")) > 0

\* SFRData.get_slopes
get_slopes(db, default_slope, minimum_slope, maximum_slope) ==
    LET rd     == db.rd
        rno    == Column(rd, "rno")
        elev   == DictZip(rno, Column(rd, "strtop"))
        dist   == DictZip(rno, Column(rd, "rchlen"))
        dnelev == DictZip(rno, [i \in 1..Len(rd) |->
                      IF rd[i].outreach # 0 THEN elev[rd[i].outreach] ELSE NoData])
        slopes == [i \in 1..Len(rd) |->
                      ClampSlope(RawSlope(elev, dnelev, dist, rd[i].rno, default_slope),
                                 minimum_slope, maximum_slope)]
    IN  IF ~RoutingSet(rd)
        THEN Raise(db, "AssertionError")
        ELSE IF \E i \in 1..Len(rd) :
                    rd[i].outreach # 0 /\ rd[i].outreach \notin DOMAIN elev
        THEN Raise(db, "KeyError")
        ELSE [db EXCEPT !.rd = AssignSlope(rd, slopes)]

\* The defaults of get_slopes' parameters.
DefaultSlope == <<1, 1000>>

DefaultMinimumSlope == <<1, 10000>>

DefaultMaximumSlope == <<1, 1>>

\* The routing attributes __init__ creates.
EmptyCache ==
    [_segment_routing |-> None, _rno_routing |-> None, _paths |-> None,
     _reach_paths |-> None, _routing |-> None]

\* SFRData._setup_segment_data with a segment table supplied: the table is
\* sorted by (per, nseg) and each reach gets the outseg of its segment.
SetupSegmentData(db) ==
    LET sd      == SortSegments(db.sd)
        rd      == db.rd
        routing == DictZip(Column(sd, "nseg"), Column(sd, "outseg"))
    IN  IF \E i \in 1..Len(rd) : rd[i].iseg \notin DOMAIN routing
        THEN Raise([db EXCEPT !.sd = sd], "KeyError")
        ELSE [db EXCEPT !.sd = sd,
                        !.rd = [i \in 1..Len(rd) |->
                                   [rd[i] EXCEPT !.outseg = routing[rd[i].iseg]]]]

\* SFRData._valid_nsegs
ValidNsegs(db, increasing) ==
    LET sd0 == Period0(db.sd)
    IN  valid_nsegs(Column(sd0, "nseg"), Column(sd0, "outseg"), increasing)

\* Mutant of ResetIfInvalid: the numbering supplied is accepted as it is.
AcceptNumbering(db, enforce_increasing_nsegs) == db

\* if not self._valid_nsegs(increasing=enforce_increasing_nsegs): self.reset_segments()
ResetIfInvalid(db, enforce_increasing_nsegs) ==
    IF ValidNsegs(db, enforce_increasing_nsegs) THEN db ELSE reset_segments(db)

\* SFRData.__init__: each step runs unless an earlier one has raised.
Construct(db, enforce_increasing_nsegs) ==
    LET db1 == SetupSegmentData(db)
        db2 == IF db1.err # "none" THEN db1
               ELSE ResetIfInvalid([db1 EXCEPT !.cache = EmptyCache],
                                   enforce_increasing_nsegs)
        db3 == IF db2.err # "none" THEN db2 ELSE set_outreaches(db2)
    IN  IF db3.err # "none" THEN db3
        ELSE get_slopes(db3, DefaultSlope, DefaultMinimumSlope, DefaultMaximumSlope)

\* What _check_reach_routing comes to.  Its second line reads
\*     'outreach' in self.reach_data.columns & self.reach_data.outreach.sum() > 0
\* where & binds before in and >: the column index is combined with a number,
\* and what that gives (an exception, or a truth value) is up to pandas.
CheckReachRoutingOutcomes == {"TypeError", "True", "False"}

\* SFRData._setup_segment_data(None), with the outcome of
\* _check_reach_routing: no branch gets past the reading of
\* segment_data.columns, segment_data being None.
SetupWithoutSegmentData(db, check) ==
    LET rd == db.rd
    IN  IF /\ valid_nsegs(Column(rd, "iseg"), Column(rd, "outseg"), FALSE)
           /\ SumSeq(Column(rd, "outseg")) > 0
        THEN \* sd['nseg'] = range(len(sd)); routing[0] is no key
             Raise([db EXCEPT !.rd = SortReaches(rd)], "KeyError")
        ELSE IF check = "TypeError" THEN Raise(db, "TypeError")
        ELSE IF check = "False" \/ ~ValidRnos(rd) THEN Raise(db, "AssertionError")
        ELSE Raise(db, "AttributeError")

(***************************************************************************)
(* The routing caches: the graphs and the paths the accessors derive from  *)
(* the tables and keep.  find_path (sfrmaker.routing) and                  *)
(* rno_nseg_routing_consistent (sfrmaker.checks) are not among the source  *)
(* files; they follow the interface contracts of the specification.        *)
(***************************************************************************)
\* The walk along graph from the last id of path down to 0: [ok, path]; ok
\* is FALSE (CycleError) when an id comes up a second time before 0.
RECURSIVE FollowGraph(_, _)
FollowGraph(graph, path) ==
    LET last == path[Len(path)]
    IN  IF last = 0 THEN [ok |-> TRUE, path |-> path]
        ELSE IF last \notin DOMAIN graph \/ graph[last] \in Range(path)
        THEN [ok |-> FALSE, path |-> path]
        ELSE FollowGraph(graph, Append(path, graph[last]))

\* find_path(graph, start): the ids from start down to 0, 0 included.
find_path(graph, start) == FollowGraph(graph, <<start>>)

\* rno_nseg_routing_consistent(nseg, outseg, iseg, ireach, rno, outreach):
\* the outreach of the last reach of every segment is reach 1 of the
\* segment's outseg, or 0 when the outseg is 0 or a lake.
rno_nseg_routing_consistent(sd0, rd) ==
    \A i \in 1..Len(rd) :
        (\A j \in 1..Len(rd) : rd[j].iseg = rd[i].iseg => rd[j].ireach <= rd[i].ireach) =>
            \E k \in 1..Len(sd0) :
                /\ sd0[k].nseg = rd[i].iseg
                /\ IF sd0[k].outseg > 0
                   THEN \E j \in 1..Len(rd) : /\ rd[j].iseg = sd0[k].outseg
                                              /\ rd[j].ireach = 1
                                              /\ rd[i].outreach = rd[j].rno
                   ELSE rd[i].outreach = 0

\* SFRData._routing_changed, where the segment table has rows of period 0.
\* A cache that holds None differs from every mapping.
RoutingChanged(db) ==
    LET sd0 == Period0(db.sd)
        rd  == db.rd
        segment_routing_changed ==
            \/ ~db.cache._segment_routing.some
            \/ db.cache._segment_routing.val # DictZip(Column(sd0, "nseg"), Column(sd0, "outseg"))
        reach_routing_changed ==
            \/ ~db.cache._rno_routing.some
            \/ db.cache._rno_routing.val # DictZip(Column(rd, "rno"), Column(rd, "outreach"))
        consistent == rno_nseg_routing_consistent(sd0, rd)
    IN  segment_routing_changed /\ reach_routing_changed /\ ~consistent

\* groupby('per').get_group(0) has no group to return (KeyError).
NoPeriod0(db) == Period0(db.sd) = <<>>

\* The segment_routing property, read: the graph is built and kept in _routing.
get_segment_routing(db) ==
    IF db.cache._segment_routing.some /\ ~NoPeriod0(db) /\ ~RoutingChanged(db)
    THEN db
    ELSE IF NoPeriod0(db) THEN Raise(db, "KeyError")
    ELSE [db EXCEPT !.cache._routing = Some(segment_routing(db))]

\* rno_routing, once set_outreaches has left db1: the graph is built.
RnoRoutingBuilt(db1) ==
    IF db1.err # "none" THEN db1
    ELSE [db1 EXCEPT !.cache._rno_routing =
             Some(RoutingGraph(Column(db1.rd, "rno"), Column(db1.rd, "outreach")))]

\* The rno_routing property, read.
get_rno_routing(db) ==
    IF db.cache._rno_routing.some /\ NoPeriod0(db) THEN Raise(db, "KeyError")
    ELSE IF db.cache._rno_routing.some /\ ~RoutingChanged(db) THEN db
    ELSE Only({RnoRoutingBuilt(db1) : db1 \in {set_outreaches(db)}})

\* Mutant of PathsOf: every path stops after one step.
PathsOfOneStep(routing) == [id \in DOMAIN routing |-> <<id, routing[id]>>]

\* {id: find_path(routing, id) for id in routing.keys()}
PathsOf(routing) == [id \in DOMAIN routing |-> find_path(routing, id).path]

\* Mutant of HasCycle: find_path never raises.
HasCycleNever(routing) == FALSE

\* find_path raises for one of the keys.
HasCycle(routing) == \E id \in DOMAIN routing : ~find_path(routing, id).ok

\* _set_paths, once the segment_routing property has left db1.
PathsSet(db1) ==
    IF db1.err # "none" THEN db1
    ELSE IF HasCycle(db1.cache._routing.val) THEN Raise(db1, "CycleError")
    ELSE [db1 EXCEPT !.cache._paths = Some(PathsOf(db1.cache._routing.val))]

\* SFRData._set_paths
set_paths(db) == Only({PathsSet(db1) : db1 \in {get_segment_routing(db)}})

\* _set_reach_paths, once the rno_routing property has left db1.
ReachPathsSet(db1) ==
    IF db1.err # "none" THEN db1
    ELSE IF HasCycle(db1.cache._rno_routing.val) THEN Raise(db1, "CycleError")
    ELSE [db1 EXCEPT !.cache._reach_paths = Some(PathsOf(db1.cache._rno_routing.val))]

\* SFRData._set_reach_paths
set_reach_paths(db) == Only({ReachPathsSet(db1) : db1 \in {get_rno_routing(db)}})

\* The statements of _reset_routing after the first: each is reached when
\* nothing before it has raised.
ThenResetSegments(db) == IF db.err # "none" THEN db ELSE reset_segments(db)

ThenSetPaths(db) ==
    IF db.err # "none" THEN db
    ELSE Only({set_paths(d) : d \in {[db EXCEPT !.cache._segment_routing = None]}})

ThenSetReachPaths(db) ==
    IF db.err # "none" THEN db
    ELSE Only({set_reach_paths(d) : d \in {[db EXCEPT !.cache._rno_routing = None]}})

\* SFRData._reset_routing
reset_routing(db) ==
    Only({ThenSetReachPaths(db3) :
            db3 \in {ThenSetPaths(db2) :
                db2 \in {ThenResetSegments(db1) :
                    db1 \in {reset_reaches(db)}}}})

\* The paths property, read.
get_paths(db) ==
    IF ~db.cache._paths.some THEN set_paths(db)
    ELSE IF NoPeriod0(db) THEN Raise(db, "KeyError")
    ELSE IF RoutingChanged(db) THEN reset_routing(db)
    ELSE db

\* The reach_paths property, read: what it returns is _reach_paths.
get_reach_paths(db) ==
    IF ~db.cache._paths.some THEN set_reach_paths(db)
    ELSE IF NoPeriod0(db) THEN Raise(db, "KeyError")
    ELSE IF RoutingChanged(db) THEN reset_routing(db)
    ELSE db

(***************************************************************************)
(* to_riv.  consolidate_reach_conductances (sfrmaker.reaches) is not among *)
(* the source files: with keep_only_dominant it keeps one reach of every   *)
(* model cell, the dominant one.  Which reach of a cell is dominant hangs  *)
(* on conductances that the tables here do not carry, so it is an input:   *)
(* the first or the last of the cell's rows.                               *)
(***************************************************************************)
Dominance == {"first", "last"}

\* Row i of df is the dominant reach of its cell.
IsDominant(df, dominant, i) ==
    \A j \in 1..Len(df) :
        df[j].node = df[i].node => IF dominant = "first" THEN i <= j ELSE j <= i

\* Mutant of consolidate_reach_conductances: every row is kept.
consolidate_nothing(df, dominant) == df

\* consolidate_reach_conductances(df, keep_only_dominant=True)
consolidate_reach_conductances(df, dominant) ==
    LET kept == {df[i].rno : i \in {k \in 1..Len(df) : IsDominant(df, dominant, k)}}
    IN  SelectSeq(df, LAMBDA row : row.rno \in kept)

\* The reach numbers the arguments select: loc & iseg.isin(segments) & rno.isin(rno).
SelectedReaches(rd, segments, rno) ==
    {rd[i].rno : i \in {k \in 1..Len(rd) :
                          /\ segments.some => rd[k].iseg \in segments.val
                          /\ rno.some => rd[k].rno \in rno.val}}

\* Mutant of ToRivReaches: every reach of the network is taken.
ToRivReachesAll(reach_paths, reaches) == DOMAIN reach_paths

\* to_riv_reaches: every id on the path of a selected reach.
ToRivReaches(reach_paths, reaches) == UNION {Range(reach_paths[r]) : r \in reaches}

\* The rows of the RivData: rno, node and outreach, renumbered.
RivRows(riv_data, new_rnos) ==
    [i \in 1..Len(riv_data) |->
        [rno      |-> NewId(new_rnos, riv_data[i].rno),
         node     |-> riv_data[i].node,
         outreach |-> NewId(new_rnos, riv_data[i].outreach)]]

\* Mutant of DropRivNodes: only the converted reaches go.
DropRivReaches(rd, to_riv_reaches) ==
    SelectSeq(rd, LAMBDA row : row.rno \notin to_riv_reaches)

\* The reach table without the reaches of the cells that have a converted reach.
DropRivNodes(rd, to_riv_reaches) ==
    LET riv_nodes == {rd[i].node : i \in {k \in 1..Len(rd) : rd[k].rno \in to_riv_reaches}}
    IN  SelectSeq(rd, LAMBDA row : row.node \notin riv_nodes)

\* table.loc[table[column].isin(ids), column] = 0
ZeroColumn(table, column, ids) ==
    [i \in 1..Len(table) |->
        IF table[i][column] \in ids THEN [table[i] EXCEPT ![column] = 0] ELSE table[i]]

\* Mutant of WithoutSegments: the rows go from period 0 only.
WithoutSegmentsOfPeriod0(sd, riv_segments) ==
    SelectSeq(sd, LAMBDA row : row.per # 0 \/ row.nseg \notin riv_segments)

\* Mutant of WithoutSegments: the rows stay.
WithSegments(sd, riv_segments) == sd

\* segment_data.loc[~segment_data.nseg.isin(riv_segments)]
WithoutSegments(sd, riv_segments) ==
    SelectSeq(sd, LAMBDA row : row.nseg \notin riv_segments)

\* The drop_in_sfr part of to_riv, from the reach table without the
\* converted cells and with its dangling outreaches at 0: the segments left
\* without a reach go, and the numbering is reset.
DropRivSegments(db, rd2) ==
    LET riv_segments == Range(Column(db.sd, "nseg")) \ Range(Column(rd2, "iseg"))
        sd1 == WithoutSegments(db.sd, riv_segments)
    IN  Only({reset_routing(d) :
                d \in {[db EXCEPT !.rd = ZeroColumn(rd2, "outseg", riv_segments),
                                  !.sd = ZeroColumn(sd1, "outseg", riv_segments)]}})

\* The drop_in_sfr part of to_riv.
drop_in_sfr(db, to_riv_reaches) ==
    Only({DropRivSegments(db, rd2) :
            rd2 \in {ZeroColumn(rd1, "outreach",
                                Range(Column(rd1, "outreach")) \ Range(Column(rd1, "rno"))) :
                rd1 \in {DropRivNodes(db.rd, to_riv_reaches)}}})

\* What to_riv hands back when it raises.
NoRiv == [converted |-> {}, rows |-> <<>>]

\* The reading of reach_paths[rno] raises for one of the selected reaches.
NoReachPath(db1, reaches) ==
    \/ db1.err # "none"
    \/ reaches # {} /\ ~db1.cache._reach_paths.some
    \/ \E r \in reaches : r \notin DOMAIN db1.cache._reach_paths.val

\* df: the rows of the selected reaches and of the reaches on their paths.
RivReachRows(db1, reaches) ==
    IF NoReachPath(db1, reaches) THEN <<>>
    ELSE LET to_riv_reaches == ToRivReaches(db1.cache._reach_paths.val, reaches)
         IN  SelectSeq(db1.rd, LAMBDA row : row.rno \in to_riv_reaches)

\* to_riv from the consolidated rows on: the renumbering, the RivData and
\* the drop.
RivFrom(db1, reaches, df, riv_data, rn, dropping) ==
    IF db1.err # "none" THEN [db |-> db1, riv |-> NoRiv]
    ELSE IF reaches # {} /\ ~db1.cache._reach_paths.some
    THEN [db |-> Raise(db1, "TypeError"), riv |-> NoRiv]
    ELSE IF NoReachPath(db1, reaches) THEN [db |-> Raise(db1, "KeyError"), riv |-> NoRiv]
    ELSE IF ~rn.ok THEN [db |-> Raise(db1, "RoutingError"), riv |-> NoRiv]
    ELSE IF \E i \in 1..Len(riv_data) : ~HasNewId(rn.r, riv_data[i].outreach)
    THEN [db |-> Raise(db1, "KeyError"), riv |-> NoRiv]
    ELSE IF ~dropping
    THEN [db |-> db1,
          riv |-> [converted |-> Range(Column(df, "rno")), rows |-> RivRows(riv_data, rn.r)]]
    ELSE Only({[db  |-> db2,
                riv |-> IF db2.err # "none" THEN NoRiv
                        ELSE [converted |-> Range(Column(df, "rno")),
                              rows |-> RivRows(riv_data, rn.r)]] :
                 db2 \in {drop_in_sfr(db1, Range(Column(df, "rno")))}})

\* Mutant of DropInSfr: the reaches are dropped whenever drop_in_sfr is set.
DropInSfrAsAsked(drop, segments, rno) == drop

\* drop_in_sfr as to_riv takes it: where nothing is selected every reach is
\* converted, and nothing is dropped.
DropInSfr(drop, segments, rno) == drop /\ (segments.some \/ rno.some)

\* SFRData.to_riv(segments, rno, drop_in_sfr): the dataset as the call
\* leaves it, the reaches converted and the rows of the RivData.
to_riv(db, segments, rno, drop, dominant) ==
    Only(UNION {UNION {UNION {UNION {
        {RivFrom(db1, reaches, df, riv_data, rn, DropInSfr(drop, segments, rno)) :
            rn \in {renumber_segments(Column(riv_data, "rno"),
                                      Column(riv_data, "outreach"))}} :
            riv_data \in {consolidate_reach_conductances(df, dominant)}} :
            df \in {RivReachRows(db1, reaches)}} :
            db1 \in {IF reaches = {} THEN db ELSE get_reach_paths(db)}} :
            reaches \in {SelectedReaches(db.rd, segments, rno)}})

(***************************************************************************)
(* The tables a loader hands to the constructor.  Three families of input  *)
(* are explored, each under the same calls: varied segment tables (Init),  *)
(* varied reach tables (InitReaches), varied elevations and lengths        *)
(* (InitSlopes).                                                           *)
(***************************************************************************)
\* Segment numbers for tables of up to m segments: dense ones and one that
\* leaves a gap.
SegIds(m) == (1..m) \cup {m + 2}

\* A lake (negative), an outlet (0), a segment, or a number that is no segment.
OutsegValues(m) == {-1, 0} \cup SegIds(m)

\* The sequences of n different members of S in rising or in falling order.
MonotoneSeqs(S, n) ==
    {s \in [1..n -> S] : \/ \A i \in 1..(n - 1) : s[i] < s[i + 1]
                         \/ \A i \in 1..(n - 1) : s[i] > s[i + 1]}

\* The ways to give each of n rows one of the places 1..m, rising from row
\* to row, no place left out.
Fillings(m, n) ==
    {s \in [1..n -> 1..m] : /\ \A i \in 1..(n - 1) : s[i] <= s[i + 1]
                            /\ \A p \in 1..m : \E i \in 1..n : s[i] = p}

\* The rows of every stress period: the routing is the same in each.
SegmentTable(nseg, outseg, nper) ==
    LET n == Len(nseg)
    IN  [k \in 1..(n * nper) |->
            [per    |-> (k - 1) \div n,
             nseg   |-> nseg[((k - 1) % n) + 1],
             outseg |-> outseg[((k - 1) % n) + 1]]]

\* Segment tables of up to m segments with numbers of ids, rows rising or
\* falling, nper stress periods.
InputSegmentTables(m, ids, nper) ==
    UNION {{SegmentTable(nseg, outseg, nper) :
                nseg \in MonotoneSeqs(ids, n),
                outseg \in [1..n -> OutsegValues(m)]} : n \in 1..m}

\* A reach row as _setup_reach_data leaves it: the columns the loader did
\* not supply are 0.
ReachRow(rno, iseg, ireach, strtop, rchlen) ==
    [rno |-> rno, node |-> 0, iseg |-> iseg, ireach |-> ireach, outseg |-> 0,
     outreach |-> 0, strtop |-> strtop, rchlen |-> rchlen, slope |-> <<0, 1>>]

\* rno as supplied: unset (0), numbered in row order, or numbered backwards.
RnoColumns(n) ==
    {[i \in 1..n |-> 0], [i \in 1..n |-> i], [i \in 1..n |-> n + 1 - i]}

\* Elevations that fall by 10 per row, from 100.
FallingElevation(i) == 100 - 10 * (i - 1)

\* Reach tables whose reaches lie in the segments of sd, segment by segment
\* in the order of sd's rows, every segment with a reach, rno unset.
OrderedReachTables(sd) ==
    LET nsegs == Column(Period0(sd), "nseg")
    IN  {[i \in 1..MaxReaches |->
            ReachRow(0, nsegs[k[i]], 1, FallingElevation(i), 100)] :
                k \in Fillings(Len(nsegs), MaxReaches)}

\* ireach as supplied: 1, 2, ... in row order, or with ties and gaps.
IreachColumns(n) == {[i \in 1..n |-> i]} \cup [1..n -> {1, 3}]

\* Reach tables of up to MaxReaches rows in any order: any segment number
\* of 1..m, ireach with ties and gaps, rno in each of its forms.
InputReachTables(m) ==
    UNION {{[i \in 1..n |->
                ReachRow(rno[i], iseg[i], ireach[i], FallingElevation(i), 100)] :
                rno \in RnoColumns(n),
                iseg \in [1..n -> 1..m],
                ireach \in IreachColumns(n)} : n \in 1..MaxReaches}

\* The elevations tried: NoData is an elevation like any other.
Elevations == {NoData, 80, 90, 100}

\* The lengths tried: 100 for every reach, or 0 or a negative length for
\* one of them.
LengthColumns(n) ==
    {[i \in 1..n |-> 100]}
    \cup {[i \in 1..n |-> IF i = z THEN len ELSE 100] : z \in 1..n, len \in {0, -100}}

\* Networks for the slopes: segments 1..n in a chain, the last one an outlet.
ChainSegmentTables ==
    {SegmentTable([i \in 1..n |-> i],
                  [i \in 1..n |-> IF i < n THEN i + 1 ELSE 0], 1) :
        n \in 1..(MaxSegs - 1)}

\* Reach tables along the chain, every segment with a reach, with any
\* elevations and lengths.
SlopeReachTables(sd) ==
    LET nsegs == Column(Period0(sd), "nseg")
    IN  {[i \in 1..MaxReaches |-> ReachRow(0, nsegs[k[i]], i, strtop[i], rchlen[i])] :
            k \in Fillings(Len(nsegs), MaxReaches),
            strtop \in [1..MaxReaches -> Elevations],
            rchlen \in LengthColumns(MaxReaches)}

\* Networks for the routing caches: segments 1..n, each one routed to an
\* outlet or to a later segment, the last one to an outlet or to a lake.
RoutedSegmentTables ==
    UNION {{SegmentTable([i \in 1..n |-> i], outseg, MaxPeriods) :
                outseg \in {o \in [1..n -> -1..n] :
                               /\ \A i \in 1..(n - 1) : o[i] = 0 \/ o[i] > i
                               /\ o[n] <= 0}} : n \in 1..(MaxSegs - 1)}

\* The model cells of n reaches: one cell each, or the second reach in the
\* cell of the last one.
NodeColumns(n) ==
    {[i \in 1..n |-> i], [i \in 1..n |-> IF i = 2 THEN n ELSE i]}

\* The number of reaches of the networks for the routing caches.
RoutedReaches == MaxReaches + 1

\* Reach tables for the routing caches: the reaches segment by segment,
\* every segment with a reach, each reach in a model cell.
RoutedReachTables(sd) ==
    LET nsegs == Column(Period0(sd), "nseg")
    IN  {[i \in 1..RoutedReaches |->
            [ReachRow(0, nsegs[k[i]], i, FallingElevation(i), 100) EXCEPT !.node = node[i]]] :
                k \in Fillings(Len(nsegs), RoutedReaches),
                node \in NodeColumns(RoutedReaches)}

\* Networks that may route in a circle: segments 1..n, each one routed to
\* an outlet or to any segment, itself included.
LoopedSegmentTables ==
    UNION {{SegmentTable([i \in 1..n |-> i], outseg, MaxPeriods) :
                outseg \in [1..n -> 0..n]} : n \in 1..(MaxSegs - 1)}

\* segment_data=None: no segment table is handed to the constructor.
NoSegmentData == <<>>

\* Reach tables that carry their own routing: rno 1..n and an outreach for
\* every reach, and either no segments at all (iseg 0) or one segment per
\* reach, numbered and routed like the reach.
SelfRoutedReachTables ==
    UNION {{[i \in 1..n |->
                [ReachRow(i, IF segments THEN i ELSE 0, IF segments THEN 1 ELSE 0,
                          FallingElevation(i), 100)
                    EXCEPT !.outreach = outreach[i],
                           !.outseg = IF segments THEN outreach[i] ELSE 0]] :
                outreach \in [1..n -> 0..n], segments \in BOOLEAN} : n \in 1..MaxReaches}

NoCall == [op |-> "none", err |-> "none", args |-> <<>>]

InitObject ==
    /\ cache = EmptyCache
    /\ pc = "input"
    /\ call = NoCall
    /\ edits = 0

Init ==
    /\ segment_data \in InputSegmentTables(MaxSegs, SegIds(MaxSegs), MaxPeriods)
    /\ reach_data \in OrderedReachTables(segment_data)
    /\ InitObject

InitReaches ==
    /\ segment_data \in InputSegmentTables(MaxSegs - 1, 1..(MaxSegs - 1), 1)
    /\ reach_data \in InputReachTables(MaxSegs - 1)
    /\ InitObject

InitSlopes ==
    /\ segment_data \in ChainSegmentTables
    /\ reach_data \in SlopeReachTables(segment_data)
    /\ InitObject

InitRouting ==
    /\ segment_data \in RoutedSegmentTables
    /\ reach_data \in RoutedReachTables(segment_data)
    /\ InitObject

InitNoSegments ==
    /\ segment_data = NoSegmentData
    /\ reach_data \in SelfRoutedReachTables
    /\ InitObject

InitLoops ==
    /\ segment_data \in LoopedSegmentTables
    /\ reach_data \in RoutedReachTables(segment_data)
    /\ InitObject

(***************************************************************************)
(* The calls.                                                              *)
(***************************************************************************)
Dataset == [rd |-> reach_data, sd |-> segment_data, cache |-> cache, err |-> "none"]

\* The tables and caches an operation leaves, and what it raised.
Leaves(db, op, args) ==
    /\ reach_data' = db.rd
    /\ segment_data' = db.sd
    /\ cache' = db.cache
    /\ call' = [op |-> op, err |-> db.err, args |-> args]

New ==
    /\ pc = "input"
    /\ \E enforce_increasing_nsegs \in BOOLEAN :
           LET db == Construct(Dataset, enforce_increasing_nsegs)
           IN  /\ Leaves(db, "__init__", <<enforce_increasing_nsegs>>)
               /\ pc' = IF db.err = "none" THEN "ready" ELSE "failed"
    /\ UNCHANGED edits

\* SFRData(reach_data=..., segment_data=None)
NewWithoutSegmentData ==
    /\ pc = "input"
    /\ segment_data = NoSegmentData
    /\ \E check \in CheckReachRoutingOutcomes :
           \E db \in {SetupWithoutSegmentData(Dataset, check)} :
               /\ Leaves(db, "__init__", <<TRUE>>)
               /\ pc' = IF db.err = "none" THEN "ready" ELSE "failed"
    /\ UNCHANGED edits

RepairOutsegs ==
    /\ pc = "ready"
    /\ Leaves(repair_outsegs(Dataset), "repair_outsegs", <<>>)
    /\ UNCHANGED <<pc, edits>>

ResetSegments ==
    /\ pc = "ready"
    /\ Leaves(reset_segments(Dataset), "reset_segments", <<>>)
    /\ UNCHANGED <<pc, edits>>

ResetReaches ==
    /\ pc = "ready"
    /\ Leaves(reset_reaches(Dataset), "reset_reaches", <<>>)
    /\ UNCHANGED <<pc, edits>>

SetOutreaches ==
    /\ pc = "ready"
    /\ Leaves(set_outreaches(Dataset), "set_outreaches", <<>>)
    /\ UNCHANGED <<pc, edits>>

\* The slope parameters tried: the defaults, and a default slope above the
\* maximum with a minimum above the slopes of the tables.
SlopeValues ==
    {[default_slope |-> DefaultSlope, minimum_slope |-> DefaultMinimumSlope,
      maximum_slope |-> DefaultMaximumSlope],
     [default_slope |-> <<2, 1>>, minimum_slope |-> <<3, 20>>,
      maximum_slope |-> DefaultMaximumSlope]}

GetSlopes ==
    /\ pc = "ready"
    /\ \E p \in SlopeValues :
           Leaves(get_slopes(Dataset, p.default_slope, p.minimum_slope, p.maximum_slope),
                  "get_slopes", <<p.default_slope, p.minimum_slope, p.maximum_slope>>)
    /\ UNCHANGED <<pc, edits>>

\* The caller reorders the rows of the public segment table (two rows of
\* the first stress period change places).
EditSegmentData ==
    /\ pc = "ready"
    /\ edits < MaxEdits
    /\ \E i \in 1..(Len(segment_data) - 1) :
           /\ segment_data[i].per = 0 /\ segment_data[i + 1].per = 0
           /\ segment_data' = [segment_data EXCEPT ![i] = segment_data[i + 1],
                                                   ![i + 1] = segment_data[i]]
    /\ call' = [op |-> "edit", err |-> "none", args |-> <<>>]
    /\ edits' = edits + 1
    /\ UNCHANGED <<reach_data, cache, pc>>

\* The caller writes a segment number that no segment has into the outseg
\* of a row of the first stress period.
EditOutseg ==
    /\ pc = "ready"
    /\ edits < MaxEdits
    /\ \E i \in 1..Len(segment_data) :
           /\ segment_data[i].per = 0
           /\ segment_data' = [segment_data EXCEPT
                  ![i].outseg = Max(Range(Column(segment_data, "nseg"))) + 1]
    /\ call' = [op |-> "edit", err |-> "none", args |-> <<>>]
    /\ edits' = edits + 1
    /\ UNCHANGED <<reach_data, cache, pc>>

Next ==
    \/ New
    \/ RepairOutsegs
    \/ ResetSegments
    \/ ResetReaches
    \/ SetOutreaches
    \/ GetSlopes
    \/ EditSegmentData
    \/ EditOutseg

\* The reads of the routing properties.
ReadSegmentRouting ==
    /\ pc = "ready"
    /\ \E db \in {get_segment_routing(Dataset)} : Leaves(db, "segment_routing", <<>>)
    /\ UNCHANGED <<pc, edits>>

ReadRnoRouting ==
    /\ pc = "ready"
    /\ \E db \in {get_rno_routing(Dataset)} : Leaves(db, "rno_routing", <<>>)
    /\ UNCHANGED <<pc, edits>>

ReadPaths ==
    /\ pc = "ready"
    /\ \E db \in {get_paths(Dataset)} : Leaves(db, "paths", <<>>)
    /\ UNCHANGED <<pc, edits>>

ReadReachPaths ==
    /\ pc = "ready"
    /\ \E db \in {get_reach_paths(Dataset)} : Leaves(db, "reach_paths", <<>>)
    /\ UNCHANGED <<pc, edits>>

\* A call of _routing_changed: it returns its verdict and changes nothing.
CallRoutingChanged ==
    /\ pc = "ready"
    /\ call' = IF NoPeriod0(Dataset)
               THEN [op |-> "_routing_changed", err |-> "KeyError", args |-> <<>>]
               ELSE [op |-> "_routing_changed", err |-> "none", args |-> <<>>,
                     ret |-> RoutingChanged(Dataset)]
    /\ UNCHANGED <<reach_data, segment_data, cache, pc, edits>>

\* The caller makes an outlet of a segment that was routed to another one,
\* in both tables: the outseg of the segment, and the outseg and outreach
\* of its reaches that led out of it, become 0.
EditRouting ==
    /\ pc = "ready"
    /\ edits < MaxEdits
    /\ \E s \in Range(Column(segment_data, "nseg")) :
           /\ \E i \in 1..Len(segment_data) :
                  segment_data[i].nseg = s /\ segment_data[i].outseg > 0
           /\ segment_data' = [i \in 1..Len(segment_data) |->
                  IF segment_data[i].nseg = s
                  THEN [segment_data[i] EXCEPT !.outseg = 0]
                  ELSE segment_data[i]]
           /\ reach_data' = [i \in 1..Len(reach_data) |->
                  IF reach_data[i].iseg # s THEN reach_data[i]
                  ELSE [reach_data[i] EXCEPT
                           !.outseg = 0,
                           !.outreach = IF \E j \in 1..Len(reach_data) :
                                               /\ reach_data[j].iseg = s
                                               /\ reach_data[j].rno = @
                                        THEN @ ELSE 0]]
    /\ call' = [op |-> "edit", err |-> "none", args |-> <<>>]
    /\ edits' = edits + 1
    /\ UNCHANGED <<cache, pc>>

\* The caller exchanges the ireach of two reaches of one segment; no
\* routing column is touched.
EditIreach ==
    /\ pc = "ready"
    /\ edits < MaxEdits
    /\ \E i, j \in 1..Len(reach_data) :
           /\ i < j
           /\ reach_data[i].iseg = reach_data[j].iseg
           /\ reach_data' = [reach_data EXCEPT ![i].ireach = reach_data[j].ireach,
                                               ![j].ireach = reach_data[i].ireach]
    /\ call' = [op |-> "edit", err |-> "none", args |-> <<>>]
    /\ edits' = edits + 1
    /\ UNCHANGED <<segment_data, cache, pc>>

\* The caller moves a reach to another segment number, one that a segment
\* has or one that none has.
EditIseg ==
    /\ pc = "ready"
    /\ edits < MaxEdits
    /\ \E i \in 1..Len(reach_data), s \in 1..MaxSegs :
           /\ s # reach_data[i].iseg
           /\ reach_data' = [reach_data EXCEPT ![i].iseg = s]
    /\ call' = [op |-> "edit", err |-> "none", args |-> <<>>]
    /\ edits' = edits + 1
    /\ UNCHANGED <<segment_data, cache, pc>>

\* The arguments of to_riv tried: every reach, one reach by its number, or
\* one segment.
ToRivSelections ==
    {[segments |-> None, rno |-> None]}
    \cup {[segments |-> None, rno |-> Some({r})] : r \in Range(Column(reach_data, "rno"))}
    \cup {[segments |-> Some({g}), rno |-> None] : g \in Range(Column(reach_data, "iseg"))}

\* Where no two reaches share a cell nothing hangs on the dominance.
DominanceChoices ==
    IF \E i, j \in 1..Len(reach_data) : i < j /\ reach_data[i].node = reach_data[j].node
    THEN Dominance ELSE {"first"}

\* to_riv; drop_in_sfr is tried on the datasets of RoutedReaches reaches.
ToRiv ==
    /\ pc = "ready"
    /\ \E sel \in ToRivSelections, drop \in BOOLEAN, dominant \in DominanceChoices :
           /\ drop => Len(reach_data) = RoutedReaches
           /\ \E out \in {to_riv(Dataset, sel.segments, sel.rno, drop, dominant)} :
                  /\ reach_data' = out.db.rd
                  /\ segment_data' = out.db.sd
                  /\ cache' = out.db.cache
                  /\ call' = [op |-> "to_riv", err |-> out.db.err,
                              args |-> <<sel.segments, sel.rno, drop>>, riv |-> out.riv]
    /\ UNCHANGED <<pc, edits>>

\* The calls on the routing caches: the reads of the routing properties,
\* to_riv, and the edits of the routing that come between them.
NextRouting ==
    \/ New
    \/ ReadSegmentRouting
    \/ ReadRnoRouting
    \/ ReadPaths
    \/ ReadReachPaths
    \/ CallRoutingChanged
    \/ ToRiv
    \/ EditRouting
    \/ EditIreach

\* The calls that renumber or drop segments, and the edit that leaves an
\* outseg to repair.
NextPeriods ==
    \/ New
    \/ RepairOutsegs
    \/ ResetSegments
    \/ ToRiv
    \/ EditOutseg

\* reset_reaches on reach tables whose segment numbers a caller has changed.
NextIsegs ==
    \/ New
    \/ ResetReaches
    \/ EditIseg

Spec == Init /\ [][Next]_vars

SpecReaches == InitReaches /\ [][Next]_vars

SpecSlopes == InitSlopes /\ [][Next]_vars

SpecRouting == InitRouting /\ [][NextRouting]_vars

SpecLoops == InitLoops /\ [][NextRouting]_vars

SpecPeriods == InitLoops /\ [][NextPeriods]_vars

SpecIsegs == InitRouting /\ [][NextIsegs]_vars

SpecNoSegments == InitNoSegments /\ [][NewWithoutSegmentData]_vars

(***************************************************************************)
(* Properties.  A property of a call is stated of the step that makes it:  *)
(* the unprimed tables are those the call found, the primed ones those it  *)
(* left.                                                                   *)
(***************************************************************************)
Rows(table) == 1..Len(table)

\* The call made by this step returned (raised nothing).
Returned(op) == call'.op = op /\ call'.err = "none"

\* The period-0 segment numbers of a segment table.
Nsegs0(sd) == Range(Column(Period0(sd), "nseg"))

\* The period-0 outseg of segment s.
Outseg0(sd, s) ==
    LET sd0 == Period0(sd)
    IN  sd0[CHOOSE k \in Rows(sd0) : sd0[k].nseg = s].outseg

\* Reach i is the last reach of its segment.
IsLastReach(rd, i) ==
    \A j \in Rows(rd) : rd[j].iseg = rd[i].iseg => rd[j].ireach <= rd[i].ireach

\* Invariant 4 of the data model, for reach i.
OutreachRuleAt(rd, sd, i) ==
    IF ~IsLastReach(rd, i)
    THEN \E j \in Rows(rd) : /\ rd[j].iseg = rd[i].iseg
                             /\ rd[j].ireach = rd[i].ireach + 1
                             /\ rd[i].outreach = rd[j].rno
    ELSE IF Outseg0(sd, rd[i].iseg) > 0
         THEN \E j \in Rows(rd) : /\ rd[j].iseg = Outseg0(sd, rd[i].iseg)
                                  /\ rd[j].ireach = 1
                                  /\ rd[i].outreach = rd[j].rno
         ELSE rd[i].outreach = 0

OutreachRule(rd, sd) == \A i \in Rows(rd) : OutreachRuleAt(rd, sd, i)

\* Every reach lies in a period-0 segment, and every segment that a
\* period-0 segment routes to owns a reach.
RoutableTables(rd, sd) ==
    /\ \A i \in Rows(rd) : rd[i].iseg \in Nsegs0(sd)
    /\ \A s \in Nsegs0(sd) :
           Outseg0(sd, s) \in Nsegs0(sd) =>
               \E i \in Rows(rd) : rd[i].iseg = Outseg0(sd, s)

\* C1: after set_outreaches() returns on tables in which every reach lies
\* in a period-0 segment and every destination segment owns a reach (and
\* after the constructor, which calls it, returns), every reach that is not
\* the last of its segment has the rno of the next reach of the segment as
\* outreach, and the last reach of a segment has the rno of reach 1 of the
\* segment's period-0 outseg, or 0 when that outseg is 0 or a lake.
C1_OutreachRule ==
    [][/\ Returned("set_outreaches") /\ RoutableTables(reach_data, segment_data)
           => OutreachRule(reach_data', segment_data')
       /\ Returned("__init__") => OutreachRule(reach_data', segment_data')]_vars

\* A segment of two reaches routed to another segment, after set_outreaches.
C1_Witness ==
    /\ call.op = "set_outreaches" /\ call.err = "none"
    /\ \E i, j, k \in Rows(reach_data) :
           /\ reach_data[i].iseg = reach_data[j].iseg
           /\ reach_data[i].ireach = 1 /\ reach_data[j].ireach = 2
           /\ reach_data[i].outreach = reach_data[j].rno
           /\ reach_data[k].iseg # reach_data[j].iseg
           /\ reach_data[j].outreach = reach_data[k].rno
           /\ reach_data[k].outreach = 0

\* The rno values are exactly 1..N, none twice.
RnoDense(rd) == Range(Column(rd, "rno")) = 1..Len(rd)

\* The rows are in (iseg, ireach) order.
InSegReachOrder(rd) == \A i \in 1..(Len(rd) - 1) : ~ReachBefore(rd[i + 1], rd[i])

\* A reach is known by its elevation and length, which no call changes.
RnoOfReach(rd) == {<<rd[i].strtop, rd[i].rchlen, rd[i].rno>> : i \in Rows(rd)}

\* Scenario A: one segment with outseg 0, three reaches 1, 2, 3, rno unset.
ScenarioA(rd, sd) ==
    /\ Len(Period0(sd)) = 1 /\ Nsegs0(sd) = {1} /\ Outseg0(sd, 1) = 0
    /\ Column(rd, "iseg") = <<1, 1, 1>>
    /\ Column(rd, "ireach") = <<1, 2, 3>>
    /\ Column(rd, "rno") = <<0, 0, 0>>

\* C2: after set_outreaches() (and after the constructor returns) the rno
\* values are exactly 1..N without duplicates: values that were no
\* permutation of 1..N are replaced by 1..N in (iseg, ireach) order, a
\* permutation of 1..N is left as it was; scenario A is constructed with
\* rno = [1, 2, 3] and outreach = [2, 3, 0].
C2_RnoDense ==
    [][/\ (call'.op = "set_outreaches" \/ Returned("__init__")) =>
              /\ RnoDense(reach_data')
              /\ Len(reach_data') = Len(reach_data)
              /\ IF RnoDense(reach_data)
                 THEN RnoOfReach(reach_data') = RnoOfReach(reach_data)
                 ELSE /\ InSegReachOrder(reach_data')
                      /\ \A i \in Rows(reach_data') : reach_data'[i].rno = i
       /\ (Returned("__init__") /\ ScenarioA(reach_data, segment_data)) =>
              /\ Column(reach_data', "rno") = <<1, 2, 3>>
              /\ Column(reach_data', "outreach") = <<2, 3, 0>>]_vars

\* Scenario A constructed.
C2_Witness ==
    /\ call.op = "__init__" /\ call.err = "none"
    /\ Column(segment_data, "outseg") = <<0>>
    /\ Column(reach_data, "rno") = <<1, 2, 3>>
    /\ Column(reach_data, "outreach") = <<2, 3, 0>>

\* The period-0 segment numbers are 1..N and every outseg that is a
\* segment number is greater than the number of its own segment.
IncreasingDense(sd) ==
    LET sd0 == Period0(sd)
    IN  /\ Nsegs0(sd) = 1..Len(sd0)
        /\ \A k \in Rows(sd0) : sd0[k].outseg <= 0 \/ sd0[k].outseg > sd0[k].nseg

\* The place reached from s by following the period-0 outseg k times; the
\* walk stops where it leaves the segments.
RECURSIVE FollowOutseg(_, _, _)
FollowOutseg(sd, s, k) ==
    IF k = 0 \/ s \notin Nsegs0(sd) THEN s
    ELSE FollowOutseg(sd, Outseg0(sd, s), k - 1)

\* No walk along the routing stays among the segments for ever.
Acyclic(sd) ==
    \A s \in Nsegs0(sd) :
        FollowOutseg(sd, s, Cardinality(Nsegs0(sd))) \notin Nsegs0(sd)

\* The one-to-one mappings of A onto B.
Bijections(A, B) ==
    {f \in [A -> B] : /\ \A a, b \in A : f[a] = f[b] => a = b
                      /\ \A y \in B : \E a \in A : f[a] = y}

\* t is what s becomes under f: a segment number becomes its image; 0 and
\* the lakes stay.
RelabelOf(f, s, t) == IF s > 0 THEN s \in DOMAIN f /\ t = f[s] ELSE t = s

\* The rows of sd2 are the rows of sd with nseg and outseg relabelled by f.
SegmentsRelabeled(f, sd, sd2) ==
    /\ Len(sd2) = Len(sd)
    /\ \A i \in Rows(sd) : \E j \in Rows(sd2) :
           /\ sd2[j].per = sd[i].per
           /\ sd2[j].nseg = f[sd[i].nseg]
           /\ RelabelOf(f, sd[i].outseg, sd2[j].outseg)

\* The rows of rd2 are the rows of rd with iseg and outseg relabelled by f,
\* every other column as it was.
ReachesRelabeled(f, rd, rd2) ==
    /\ Len(rd2) = Len(rd)
    /\ \A i \in Rows(rd) : \E j \in Rows(rd2) :
           /\ rd[i].iseg \in DOMAIN f
           /\ RelabelOf(f, rd[i].outseg, rd2[j].outseg)
           /\ rd2[j] = [rd[i] EXCEPT !.iseg = f[rd[i].iseg], !.outseg = rd2[j].outseg]

\* The segment numbers of every stress period.
Nsegs(sd) == Range(Column(sd, "nseg"))

\* C3: after a construction with enforce_increasing_nsegs=True that
\* returns, the period-0 segment numbers are exactly 1..N, every outseg is 0,
\* negative or greater than its own nseg, and the routing has no cycle; a
\* numbering that was not so on input has been replaced by a relabelling of
\* the segments (it was reset, not accepted).
C3_IncreasingNsegs ==
    [][(Returned("__init__") /\ call'.args[1]) =>
           /\ IncreasingDense(segment_data')
           /\ Acyclic(segment_data')
           /\ ~IncreasingDense(segment_data) =>
                  \E f \in Bijections(Nsegs(segment_data), 1..Cardinality(Nsegs(segment_data))) :
                      SegmentsRelabeled(f, segment_data, segment_data')]_vars

\* Three segments in a chain, constructed.
C3_Witness ==
    /\ call.op = "__init__" /\ call.err = "none" /\ call.args[1]
    /\ Nsegs0(segment_data) = 1..3
    /\ Outseg0(segment_data, 1) = 2 /\ Outseg0(segment_data, 2) = 3
    /\ Outseg0(segment_data, 3) <= 0

\* Scenario C: segments 5 and 3, 5 routed to 3 and 3 an outlet.
ScenarioC(sd) ==
    /\ Column(Period0(sd), "nseg") = <<5, 3>>
    /\ Column(Period0(sd), "outseg") = <<3, 0>>

\* C4: reset_segments() is an isomorphic relabelling: there is a one-to-one
\* mapping f of the old segment numbers onto 1..N such that every segment
\* row's nseg becomes f(nseg), every positive outseg f(outseg) while 0 and
\* negative outsegs stay, every reach's iseg becomes f(iseg) and its outseg
\* is mapped the same way, and afterwards every positive outseg is greater
\* than its nseg; constructing nseg=[5,3], outseg=[3,0] gives nseg=[1,2],
\* outseg=[2,0].
C4_IsomorphicRelabeling ==
    [][/\ Returned("reset_segments") =>
              /\ \E f \in Bijections(Nsegs(segment_data), 1..Cardinality(Nsegs(segment_data))) :
                     /\ SegmentsRelabeled(f, segment_data, segment_data')
                     /\ ReachesRelabeled(f, reach_data, reach_data')
              /\ IncreasingDense(segment_data')
       /\ (Returned("__init__") /\ call'.args[1] /\ ScenarioC(segment_data)) =>
              /\ Column(Period0(segment_data'), "nseg") = <<1, 2>>
              /\ Column(Period0(segment_data'), "outseg") = <<2, 0>>
              /\ \E f \in Bijections({3, 5}, 1..2) :
                     \A i \in Rows(reach_data) : \E j \in Rows(reach_data') :
                         /\ reach_data'[j].strtop = reach_data[i].strtop
                         /\ reach_data'[j].iseg = f[reach_data[i].iseg]]_vars

\* reset_segments() has returned on three segments, two of them routed on.
C4_Witness ==
    /\ call.op = "reset_segments" /\ call.err = "none"
    /\ Nsegs0(segment_data) = 1..3
    /\ \E s, t \in 1..3 : s # t /\ Outseg0(segment_data, s) > 0
                                /\ Outseg0(segment_data, t) > 0

\* The outseg values that are no nseg, 0 or lake.
Strays(sd) == {i \in Rows(sd) : sd[i].outseg > 0 /\ sd[i].outseg \notin Nsegs(sd)}

\* C5: repair_outsegs() sets to 0 exactly the outseg values that are
\* positive and no nseg; every other outseg and every nseg is left as it
\* was, the call never fails, afterwards no outseg names a segment that does
\* not exist, and a second call changes nothing.
C5_RepairOutsegs ==
    [][/\ call'.op = "repair_outsegs" =>
              /\ call'.err = "none"
              /\ Len(segment_data') = Len(segment_data)
              /\ \A i \in Rows(segment_data) :
                     segment_data'[i] =
                         IF i \in Strays(segment_data)
                         THEN [segment_data[i] EXCEPT !.outseg = 0]
                         ELSE segment_data[i]
              /\ Strays(segment_data') = {}
              /\ reach_data' = reach_data
       /\ (call.op = "repair_outsegs" /\ call'.op = "repair_outsegs") =>
              segment_data' = segment_data]_vars

\* repair_outsegs() has made an outlet of a segment whose outseg the caller
\* had set to a number that no segment has: the row of the next stress
\* period still routes on.
C5_Witness ==
    /\ call.op = "repair_outsegs" /\ call.err = "none" /\ edits = 1
    /\ \E i, j \in Rows(segment_data) :
           /\ segment_data[i].per = 0 /\ segment_data[j].per = 1
           /\ segment_data[i].nseg = segment_data[j].nseg
           /\ segment_data[i].outseg = 0 /\ segment_data[j].outseg > 0

\* The reaches of segment s, as the places of their rows.
ReachesOf(rd, s) == {i \in Rows(rd) : rd[i].iseg = s}

\* Within every segment the ireach values are exactly 1..k, none twice.
IreachDense(rd) ==
    \A i \in Rows(rd) :
        LET mine == ReachesOf(rd, rd[i].iseg)
        IN  /\ {rd[j].ireach : j \in mine} = 1..Cardinality(mine)
            /\ \A j \in mine : rd[j].ireach = rd[i].ireach => j = i

\* rd2 holds the rows of rd in (iseg, ireach) order, ties in row order,
\* whatever their ireach has become.
InPreviousOrder(rd, rd2) ==
    /\ Len(rd2) = Len(rd)
    /\ \A i \in Rows(rd) : rd2[i] = [SortReaches(rd)[i] EXCEPT !.ireach = rd2[i].ireach]
    /\ \A i, j \in Rows(rd2) : (i < j /\ rd2[i].iseg = rd2[j].iseg) =>
                                   rd2[i].ireach < rd2[j].ireach

\* C6: after reset_reaches(), within every segment the ireach values are
\* exactly 1..k (k the number of reaches of the segment) without gaps or
\* duplicates, the reaches of a segment in the order they had under the
\* (iseg, ireach) sort, for any order of the rows of the segment table.
C6_IreachDense ==
    [][Returned("reset_reaches") =>
           /\ IreachDense(reach_data')
           /\ InPreviousOrder(reach_data, reach_data')]_vars

\* reset_reaches() has returned and left two reaches of one segment with
\* the same ireach.
C6_Witness ==
    /\ call.op = "reset_reaches" /\ call.err = "none"
    /\ \E i, j \in Rows(reach_data) :
           /\ i # j
           /\ reach_data[i].iseg = reach_data[j].iseg
           /\ reach_data[i].ireach = reach_data[j].ireach

\* lo <= s <= hi
SlopeWithin(s, lo, hi) == ~FracLess(s, lo) /\ ~FracLess(hi, s)

\* get_slopes has returned: d, lo and hi are the default, minimum and maximum
\* slope it was called with (the constructor calls it with the defaults).
SlopesFrom(d, lo, hi) ==
    \/ /\ call.op = "get_slopes" /\ call.err = "none"
       /\ d = call.args[1] /\ lo = call.args[2] /\ hi = call.args[3]
    \/ /\ call.op = "__init__" /\ call.err = "none"
       /\ d = DefaultSlope /\ lo = DefaultMinimumSlope /\ hi = DefaultMaximumSlope

SlopeParameters == {p.default_slope : p \in SlopeValues} \cup
                   {p.minimum_slope : p \in SlopeValues} \cup
                   {p.maximum_slope : p \in SlopeValues}

\* C7: after get_slopes(default_slope, minimum_slope, maximum_slope) with
\* minimum_slope <= maximum_slope, every reach's slope lies between
\* minimum_slope and maximum_slope, for any elevations, lengths and
\* default_slope.
C7_SlopesClamped ==
    \A d, lo, hi \in SlopeParameters :
        (SlopesFrom(d, lo, hi) /\ ~FracLess(hi, lo)) =>
            \A i \in Rows(reach_data) : SlopeWithin(reach_data[i].slope, lo, hi)

\* The reach that reach i flows to.
OutreachOf(rd, i) == CHOOSE j \in Rows(rd) : rd[j].rno = rd[i].outreach

\* The slope of reach i from the elevations, where it has an outreach and a length.
ComputedSlope(rd, i) == Frac(rd[i].strtop - rd[OutreachOf(rd, i)].strtop, rd[i].rchlen)

\* get_slopes has returned with a slope raised to the minimum and a slope
\* cut to the maximum.
C7_Witness ==
    /\ call.op = "get_slopes" /\ call.err = "none"
    /\ \E i, j \in Rows(reach_data) :
           /\ reach_data[i].outreach # 0 /\ reach_data[i].rchlen > 0
           /\ FracLess(ComputedSlope(reach_data, i), call.args[2])
           /\ reach_data[i].slope = call.args[2]
           /\ reach_data[j].outreach # 0 /\ reach_data[j].rchlen > 0
           /\ FracLess(call.args[3], ComputedSlope(reach_data, j))
           /\ reach_data[j].slope = call.args[3]

\* C8: after get_slopes(default_slope, minimum_slope, maximum_slope) every
\* reach whose outreach is 0 has slope exactly default_slope, for every
\* choice of default_slope, minimum_slope and maximum_slope.
C8_OutletDefaultSlope ==
    \A d, lo, hi \in SlopeParameters :
        SlopesFrom(d, lo, hi) =>
            \A i \in Rows(reach_data) :
                reach_data[i].outreach = 0 => reach_data[i].slope = d

\* get_slopes has returned with a default slope above the maximum, and an
\* outlet reach has the maximum as slope.
C8_Witness ==
    /\ call.op = "get_slopes" /\ call.err = "none"
    /\ FracLess(call.args[3], call.args[1])
    /\ \E i \in Rows(reach_data) :
           reach_data[i].outreach = 0 /\ reach_data[i].slope = call.args[3]

\* s brought into lo..hi.
Clamped(s, lo, hi) == IF FracLess(s, lo) THEN lo ELSE IF FracLess(hi, s) THEN hi ELSE s

\* Scenario D: three reaches in a chain, strtop 100, 90, 80, each 100 long.
ScenarioD(rd) ==
    /\ Column(rd, "strtop") = <<100, 90, 80>>
    /\ Column(rd, "rchlen") = <<100, 100, 100>>
    /\ Column(rd, "outreach") = <<2, 3, 0>>

\* C9: after get_slopes() every reach with a nonzero outreach and a positive
\* rchlen has as slope its own strtop minus the strtop of its outreach,
\* divided by its rchlen, clamped to [minimum_slope, maximum_slope],
\* whatever the elevations are; three reaches in a chain with strtop
\* [100, 90, 80] and rchlen [100, 100, 100] have the slopes
\* [0.1, 0.1, default_slope].
C9_ComputedSlope ==
    \A d, lo, hi \in SlopeParameters :
        SlopesFrom(d, lo, hi) =>
            /\ \A i \in Rows(reach_data) :
                   (reach_data[i].outreach # 0 /\ reach_data[i].rchlen > 0) =>
                       reach_data[i].slope = Clamped(ComputedSlope(reach_data, i), lo, hi)
            /\ (ScenarioD(reach_data) /\ d = DefaultSlope /\ lo = DefaultMinimumSlope
                    /\ hi = DefaultMaximumSlope) =>
                   Column(reach_data, "slope") = <<<<1, 10>>, <<1, 10>>, DefaultSlope>>

\* get_slopes has returned and a reach above a reach whose strtop is -9999
\* has the default slope.
C9_Witness ==
    /\ call.op = "get_slopes" /\ call.err = "none"
    /\ \E i \in Rows(reach_data) :
           /\ reach_data[i].outreach # 0 /\ reach_data[i].rchlen > 0
           /\ reach_data[i].strtop = 100
           /\ reach_data[OutreachOf(reach_data, i)].strtop = NoData
           /\ reach_data[i].slope = call.args[1]
           /\ call.args[1] = DefaultSlope

\* The reach table without its slope column.
WithoutSlope(rd) == [i \in Rows(rd) |-> [rd[i] EXCEPT !.slope = <<0, 1>>]]

\* C10: get_slopes is idempotent and changes only the slope column: a
\* second call in a row with the same arguments leaves the slopes of the
\* first, and rno, outreach, strtop, rchlen (every column but slope) and the
\* segment table are as they were before the call.
C10_GetSlopesIdempotent ==
    [][call'.op = "get_slopes" =>
           /\ WithoutSlope(reach_data') = WithoutSlope(reach_data)
           /\ segment_data' = segment_data
           /\ (call.op = "get_slopes" /\ call.err = "none" /\ call'.args = call.args) =>
                  (call'.err = "none" /\ reach_data' = reach_data)]_vars

\* get_slopes has returned with other parameters than the constructor's,
\* with a computed slope and a default slope among the slopes.
C10_Witness ==
    /\ call.op = "get_slopes" /\ call.err = "none"
    /\ call.args[1] # DefaultSlope
    /\ \E i, j \in Rows(reach_data) :
           /\ reach_data[i].outreach # 0 /\ reach_data[i].rchlen > 0
           /\ reach_data[i].slope = ComputedSlope(reach_data, i)
           /\ reach_data[j].outreach = 0

(***************************************************************************)
(* The routing caches.                                                     *)
(***************************************************************************)
\* The destinations in values that are no source in keys are keys of graph
\* and lead to 0.
SinksAdded(graph, keys, values) ==
    \A v \in Range(values) \ Range(keys) : v \in DOMAIN graph /\ graph[v] = 0

CoversReaches(paths, rd) ==
    \A i \in Rows(rd) : rd[i].rno \in DOMAIN paths /\ paths[rd[i].rno][1] = rd[i].rno

\* C12: a read of reach_paths that returns hands back a mapping with a path
\* for every reach, whether paths has been read before it or not.
C12_ReachPathsPopulated ==
    [][Returned("reach_paths") =>
           /\ cache'._reach_paths.some
           /\ CoversReaches(cache'._reach_paths.val, reach_data')]_vars

\* reach_paths has been read after paths and has returned None.
C12_Witness ==
    /\ call.op = "reach_paths" /\ call.err = "none"
    /\ cache._paths.some
    /\ ~cache._reach_paths.some

\* path is the walk through graph from id: it starts at id, goes from each
\* id to the one graph gives for it, and stops at the first 0.
IsWalk(path, graph, id) ==
    /\ Len(path) >= 1
    /\ path[1] = id
    /\ path[Len(path)] = 0
    /\ \A k \in 1..(Len(path) - 1) :
           /\ path[k] # 0
           /\ path[k] \in DOMAIN graph
           /\ path[k + 1] = graph[path[k]]

\* paths has, for every key of graph and for nothing else, the walk from it.
WalksOf(paths, graph) ==
    /\ DOMAIN paths = DOMAIN graph
    /\ \A id \in DOMAIN graph : IsWalk(paths[id], graph, id)

\* The graphs of the tables as they stand.
SegmentGraph(sd) == RoutingGraph(Column(Period0(sd), "nseg"), Column(Period0(sd), "outseg"))

ReachGraph(rd) == RoutingGraph(Column(rd, "rno"), Column(rd, "outreach"))

C13_CachesFresh ==
    [][/\ Returned("paths") =>
           cache'._paths.val = PathsOf(SegmentGraph(segment_data'))
       /\ Returned("reach_paths") /\ cache'._reach_paths.some =>
           cache'._reach_paths.val = PathsOf(ReachGraph(reach_data'))
       /\ Returned("rno_routing") =>
           cache'._rno_routing.val = ReachGraph(reach_data')]_vars

\* paths has been read after a caller made an outlet of a segment in both
\* tables, and still leads from that segment to another one.
C13_Witness ==
    /\ call.op = "paths" /\ call.err = "none"
    /\ edits = 1
    /\ rno_nseg_routing_consistent(Period0(segment_data), reach_data)
    /\ \E i \in Rows(segment_data) :
           /\ segment_data[i].per = 0
           /\ segment_data[i].outseg = 0
           /\ Len(cache._paths.val[segment_data[i].nseg]) > 2

\* The cached graph is not the one the columns give.
Differs(cached, graph) == ~cached.some \/ cached.val # graph

\* C14: _routing_changed() returns true only when the segment graph last
\* built differs from the one nseg and outseg give, the reach graph last
\* built differs from the one rno and outreach give, and the two tables
\* are inconsistent with each other.
C14_ChangedOnlyIfAllThree ==
    [][Returned("_routing_changed") /\ call'.ret =>
           /\ Differs(cache._routing, SegmentGraph(segment_data))
           /\ Differs(cache._rno_routing, ReachGraph(reach_data))
           /\ ~rno_nseg_routing_consistent(Period0(segment_data), reach_data)]_vars

\* _routing_changed() has returned true with both graphs cached as the
\* routing columns give them: a caller has exchanged two ireach values.
C14_Witness ==
    /\ call.op = "_routing_changed" /\ call.err = "none" /\ call.ret
    /\ cache._routing.some /\ cache._rno_routing.some
    /\ cache._routing.val = SegmentGraph(segment_data)
    /\ cache._rno_routing.val = ReachGraph(reach_data)

(***************************************************************************)
(* to_riv.  In a step that calls it, call'.args is <<segments, rno,        *)
(* drop_in_sfr>> and call'.riv holds the reaches converted and the rows of *)
(* the RivData.                                                            *)
(***************************************************************************)
\* The reach numbers in S and those reached from them along outreach.
RECURSIVE Downstream(_, _)
Downstream(rd, S) ==
    LET T == S \cup {rd[i].outreach : i \in {k \in Rows(rd) : rd[k].rno \in S /\ rd[k].outreach # 0}}
    IN  IF T = S THEN S ELSE Downstream(rd, T)

NodesOf(rd, S) == {rd[i].node : i \in {k \in Rows(rd) : rd[k].rno \in S}}

\* C17: no two rows of the RivData a returning to_riv hands back are of the
\* same node, and it has as many rows as the reaches converted have nodes.
C17_OneRowPerNode ==
    [][Returned("to_riv") =>
           LET rows == call'.riv.rows
           IN  /\ \A i, j \in Rows(rows) : rows[i].node = rows[j].node => i = j
               /\ Len(rows) = Cardinality(NodesOf(reach_data, call'.riv.converted))
               /\ {rows[i].node : i \in Rows(rows)} =
                      NodesOf(reach_data, call'.riv.converted)]_vars

\* to_riv has returned fewer rows than it converted reaches: two of the
\* reaches lie in one cell.
C17_Witness ==
    /\ call.op = "to_riv" /\ call.err = "none"
    /\ Len(call.riv.rows) >= 2
    /\ Len(call.riv.rows) < Cardinality(call.riv.converted)

\* rd and sd are a network that routes: rno is 1..N, the period-0 segments
\* are 1..M, every segment of any period owns a reach and every reach lies
\* in a segment, ireach is 1..k in every segment, every outseg is 0, a lake
\* or a segment, and outreach is as set_outreaches sets it.
ValidNetwork(rd, sd) ==
    /\ RnoDense(rd)
    /\ Nsegs0(sd) = 1..Len(Period0(sd))
    /\ Nsegs(sd) = Range(Column(rd, "iseg"))
    /\ Nsegs(sd) = Nsegs0(sd)
    /\ IreachDense(rd)
    /\ \A k \in Rows(sd) : sd[k].outseg <= 0 \/ sd[k].outseg \in Nsegs(sd)
    /\ OutreachRule(rd, sd)

\* The step is a to_riv with drop_in_sfr that has returned.
Dropped == Returned("to_riv") /\ call'.args[3] /\ (call'.args[1].some \/ call'.args[2].some)

\* C18: when to_riv(..., drop_in_sfr=True) has removed some of the reaches
\* and not all, what is left is a network that routes.
C18_RemainderValid ==
    [][(Dropped /\ Len(reach_data') < Len(reach_data) /\ Len(reach_data') > 0) =>
           ValidNetwork(reach_data', segment_data')]_vars

\* to_riv has dropped the lower one of two segments and one reach of the
\* upper one: two reaches of one segment are left, in a network that routes.
C18_Witness ==
    /\ call.op = "to_riv" /\ call.err = "none" /\ call.args[3]
    /\ Len(reach_data) = 2
    /\ Len(segment_data) = MaxPeriods
    /\ Cardinality(call.riv.converted) = 1
    /\ ValidNetwork(reach_data, segment_data)

\* Row j of rd2 is the reach that row i of rd was: a reach is known by its
\* elevation, which no call changes.
SameReach(rd, i, rd2, j) == rd2[j].strtop = rd[i].strtop

\* The reach numbered r in rd is not among the reaches of rd2.
Removed(rd, r, rd2) ==
    \A i \in Rows(rd) : rd[i].rno = r => \A j \in Rows(rd2) : ~SameReach(rd, i, rd2, j)

\* No reach of segment s of rd is among the reaches of rd2.
SegmentRemoved(rd, s, rd2) ==
    \A i \in Rows(rd) : rd[i].iseg = s => \A j \in Rows(rd2) : ~SameReach(rd, i, rd2, j)

\* C19: after to_riv(..., drop_in_sfr=True) has returned, a reach that is
\* left and whose outreach was a reach now removed has outreach 0, and a
\* segment that is left and whose outseg was a segment now removed has
\* outseg 0.
C19_DanglingBecomeOutlets ==
    [][Dropped =>
           \A i \in Rows(reach_data), j \in Rows(reach_data') :
               SameReach(reach_data, i, reach_data', j) =>
                   /\ (reach_data[i].outreach # 0
                        /\ Removed(reach_data, reach_data[i].outreach, reach_data'))
                           => reach_data'[j].outreach = 0
                   /\ (Outseg0(segment_data, reach_data[i].iseg) > 0
                        /\ SegmentRemoved(reach_data, Outseg0(segment_data, reach_data[i].iseg),
                                          reach_data'))
                           => Outseg0(segment_data', reach_data'[j].iseg) = 0]_vars

\* to_riv has dropped the middle reach of a segment of three, which lay in
\* the cell of a converted reach of another segment: the first reach now
\* leads to the third.
C19_Witness ==
    /\ call.op = "to_riv" /\ call.err = "none" /\ call.args[3]
    /\ Cardinality(call.riv.converted) = 1
    /\ Len(reach_data) = 2
    /\ reach_data[1].strtop = FallingElevation(1)
    /\ reach_data[2].strtop = FallingElevation(3)
    /\ reach_data[1].outreach = reach_data[2].rno

\* C20: a reset_segments(), set_outreaches() or to_riv() that raises leaves
\* the reach table and the segment table as it found them.
C20_AllOrNothing ==
    [][(call'.op \in {"reset_segments", "set_outreaches", "to_riv"} /\ call'.err # "none") =>
           /\ reach_data' = reach_data
           /\ segment_data' = segment_data]_vars

\* reset_segments() has raised on tables that no caller had edited, and
\* has left the segment table renumbered, its rows not yet put in order,
\* and the reach table with an outseg that is no segment.
C20_Witness ==
    /\ call.op = "reset_segments" /\ call.err = "KeyError" /\ edits = 0
    /\ \E i \in Rows(segment_data) :
           /\ i < Len(segment_data)
           /\ segment_data[i].per = 0 /\ segment_data[i + 1].per = 0
           /\ segment_data[i].nseg > segment_data[i + 1].nseg
    /\ \E i \in Rows(reach_data) :
           reach_data[i].outseg > 0 /\ reach_data[i].outseg \notin Nsegs(segment_data)

(***************************************************************************)
(* Routing in a circle.                                                    *)
(***************************************************************************)
\* The ids reached from the ids of S along graph, those of S included.
RECURSIVE Reachable(_, _)
Reachable(graph, S) ==
    LET T == S \cup {graph[k] : k \in S \cap DOMAIN graph}
    IN  IF T = S THEN S ELSE Reachable(graph, T)

\* Some id of graph leads back to itself.
Cyclic(graph) ==
    \E id \in DOMAIN graph : id # 0 /\ id \in Reachable(graph, {graph[id]})

\* C21: where the segment routing of period 0, and with it the reach routing
\* derived from it, leads in a circle, a read of paths or of reach_paths
\* ends in a CycleError or a RoutingError: no paths are handed back, also
\* not by a dataset that was constructed with enforce_increasing_nsegs=False.
C21_CyclesRaise ==
    [][(/\ pc = "ready"
        /\ call'.op \in {"paths", "reach_paths"}
        /\ Cyclic(SegmentGraph(segment_data)))
       => /\ call'.err \in {"CycleError", "RoutingError"}
          /\ ~cache'._paths.some
          /\ ~cache'._reach_paths.some]_vars

\* A dataset whose two segments route to each other has been constructed
\* and the read of paths has raised CycleError.
C21_Witness ==
    /\ pc = "ready"
    /\ call.op = "paths"
    /\ call.err = "CycleError"
    /\ \E i, j \in Rows(segment_data) :
           /\ segment_data[i].nseg # segment_data[j].nseg
           /\ segment_data[i].outseg = segment_data[j].nseg
           /\ segment_data[j].outseg = segment_data[i].nseg
    /\ ~cache._paths.some

(***************************************************************************)
(* The outseg kept on the reach rows.                                      *)
(***************************************************************************)
\* Every reach carries the outseg that its segment has in period 0.
ReachOutsegsAgree(rd, sd) ==
    \A i \in Rows(rd) :
        /\ rd[i].iseg \in Nsegs0(sd)
        /\ rd[i].outseg = Outseg0(sd, rd[i].iseg)

\* C22: after the constructor and after every repair_outsegs, reset_segments
\* and set_outreaches that returns, the outseg of each reach row is the
\* period-0 outseg of the segment the reach lies in.
C22_ReachOutsegAgrees ==
    [][(/\ call'.op \in {"__init__", "repair_outsegs", "reset_segments", "set_outreaches"}
        /\ call'.err = "none")
       => ReachOutsegsAgree(reach_data', segment_data')]_vars

\* The constructor has returned, and a reach carries an outseg that is no
\* segment while its segment has been made an outlet.
C22_Witness ==
    /\ pc = "ready"
    /\ call.op = "__init__"
    /\ \E i \in Rows(reach_data) :
           /\ reach_data[i].iseg \in Nsegs0(segment_data)
           /\ Outseg0(segment_data, reach_data[i].iseg) = 0
           /\ reach_data[i].outseg > 0
           /\ reach_data[i].outseg \notin Nsegs0(segment_data)

(***************************************************************************)
(* The slopes after the routing has changed.                               *)
(***************************************************************************)
\* The slope column is the one get_slopes() would write for the outreach
\* column as it stands: the default slope for an outlet, the clamped slope
\* to the outreach for every other reach.
SlopesCurrent(rd) ==
    \A i \in Rows(rd) :
        IF rd[i].outreach = 0 THEN rd[i].slope = DefaultSlope
        ELSE /\ \E j \in Rows(rd) : rd[j].rno = rd[i].outreach
             /\ rd[i].rchlen > 0
             /\ rd[i].slope = Clamped(ComputedSlope(rd, i),
                                      DefaultMinimumSlope, DefaultMaximumSlope)

\* C23: when a to_riv(..., drop_in_sfr=True) on a dataset whose slopes are
\* those of its routing returns, the slopes are those of the routing it
\* leaves: a reach that has become an outlet carries the default slope.
C23_SlopesFollowRouting ==
    [][(Dropped /\ SlopesCurrent(reach_data)) => SlopesCurrent(reach_data')]_vars

\* to_riv with drop_in_sfr has returned and has left an outlet reach whose
\* slope is the one computed to the reach that was dropped.
C23_Witness ==
    /\ call.op = "to_riv" /\ call.err = "none" /\ call.args[3]
    /\ \E i \in Rows(reach_data) :
           /\ reach_data[i].outreach = 0
           /\ reach_data[i].slope = <<1, 10>>

(***************************************************************************)
(* The segment numbers of the stress periods.                              *)
(***************************************************************************)
\* The stress periods of a segment table.
Periods(sd) == Range(Column(sd, "per"))

\* The segment numbers of stress period p.
PeriodNsegs(sd, p) == {sd[i].nseg : i \in {k \in Rows(sd) : sd[k].per = p}}

\* Each of the periods P has the segment numbers of period 0.
SharedNsegs(sd, P) == \A p \in P : PeriodNsegs(sd, p) = PeriodNsegs(sd, 0)

\* C24: when the stress periods of the segment table have one set of
\* segment numbers, they have one set still after a repair_outsegs(), a
\* reset_segments() and a to_riv(..., drop_in_sfr=True) that returns: no
\* period is lost, reset_segments relabels the rows of every period by one
\* mapping, and a segment that to_riv dropped is in no period.
C24_PeriodsShareNsegs ==
    [][(/\ pc = "ready"
        /\ Returned("repair_outsegs") \/ Returned("reset_segments") \/ Dropped
        /\ SharedNsegs(segment_data, Periods(segment_data)))
       => /\ Periods(segment_data') = Periods(segment_data)
          /\ SharedNsegs(segment_data', Periods(segment_data))
          /\ Returned("repair_outsegs") => Column(segment_data', "nseg") = Column(segment_data, "nseg")
          /\ Returned("reset_segments") =>
                 \E f \in Bijections(Nsegs(segment_data), Nsegs(segment_data')) :
                     SegmentsRelabeled(f, segment_data, segment_data')
          /\ Dropped => Nsegs(segment_data') = Range(Column(reach_data', "iseg"))]_vars

\* to_riv has dropped reaches and left one segment, numbered 1, in each of
\* the stress periods.
C24_Witness ==
    /\ call.op = "to_riv" /\ call.err = "none" /\ call.args[3]
    /\ call.args[1].some \/ call.args[2].some
    /\ Periods(segment_data) = 0..(MaxPeriods - 1)
    /\ \A p \in Periods(segment_data) : PeriodNsegs(segment_data, p) = {1}
    /\ Len(reach_data) < RoutedReaches

(***************************************************************************)
(* The constructor without a segment table.                                *)
(***************************************************************************)
\* The reach table carries valid reach numbers and a connection.
HasReachRouting(rd) == ValidRnos(rd) /\ \E i \in Rows(rd) : rd[i].outreach # 0

\* C25: a constructor that is handed no segment table, and a reach table
\* with rno 1..N and some nonzero outreach, returns, and has made a segment
\* table of period 0 with a segment for every reach (nseg = rno, outseg =
\* outreach) or, where the reaches name their segments, for every iseg.
C25_SegmentDataOptional ==
    [][(/\ pc = "input"
        /\ segment_data = NoSegmentData
        /\ HasReachRouting(reach_data)
        /\ call'.op = "__init__")
       => /\ call'.err = "none"
          /\ pc' = "ready"
          /\ Nsegs0(segment_data') = 1..Len(reach_data)]_vars

\* The constructor was handed no segment table and a reach table with rno
\* 1, 2, 3 routed in a chain, and has raised.
C25_Witness ==
    /\ pc = "failed"
    /\ call.op = "__init__"
    /\ segment_data = NoSegmentData
    /\ Column(reach_data, "rno") = <<1, 2, 3>>
    /\ Column(reach_data, "outreach") = <<2, 3, 0>>
    /\ Column(reach_data, "iseg") = <<0, 0, 0>>
    /\ call.err = "AttributeError"

(***************************************************************************)
(* Reaches without a length.                                               *)
(***************************************************************************)
\* C26: after a get_slopes() that returns, and after the constructor, a
\* reach with a nonzero outreach and an rchlen of zero or less carries the
\* default slope, brought into [minimum_slope, maximum_slope]: nothing is
\* divided by its length.
C26_NoLengthDefaultSlope ==
    [][/\ Returned("get_slopes") =>
           \A i \in Rows(reach_data') :
               (reach_data'[i].outreach # 0 /\ reach_data'[i].rchlen <= 0) =>
                   reach_data'[i].slope = Clamped(call'.args[1], call'.args[2], call'.args[3])
       /\ Returned("__init__") =>
           \A i \in Rows(reach_data') :
               (reach_data'[i].outreach # 0 /\ reach_data'[i].rchlen <= 0) =>
                   reach_data'[i].slope = DefaultSlope]_vars

\* get_slopes(default_slope=2, minimum_slope=0.15) has returned, and a
\* reach of negative length that lies above its outreach carries the
\* maximum slope, which is what the default slope is cut to.
C26_Witness ==
    /\ call.op = "get_slopes" /\ call.err = "none"
    /\ call.args[1] = <<2, 1>>
    /\ \E i \in Rows(reach_data) :
           /\ reach_data[i].outreach # 0
           /\ reach_data[i].rchlen < 0
           /\ \E j \in Rows(reach_data) :
                  /\ reach_data[j].rno = reach_data[i].outreach
                  /\ reach_data[j].strtop # NoData
                  /\ reach_data[j].strtop < reach_data[i].strtop
           /\ reach_data[i].slope = call.args[3]

(***************************************************************************)
(* reset_reaches where the two tables do not fit.                          *)
(***************************************************************************)
\* Some reach lies in a segment that period 0 does not have.
StrayIseg(rd, sd) == \E i \in Rows(rd) : rd[i].iseg \notin Nsegs0(sd)

\* Some segment of period 0 has no reach.
EmptySegment(rd, sd) == \E s \in Nsegs0(sd) : ReachesOf(rd, s) = {}

\* Some segment of period 0 is numbered above the largest iseg.
SegmentAbove(rd, sd) == \E s \in Nsegs0(sd) : \A i \in Rows(rd) : rd[i].iseg < s

\* rd2 has the rows of rd, each as it was, in some order.
SameRows(rd, rd2) ==
    /\ Len(rd2) = Len(rd)
    /\ \A i \in Rows(rd) : \E j \in Rows(rd2) : rd2[j] = rd[i]

\* The step is a call of reset_reaches on a constructed dataset.
ResetReachesCalled == pc = "ready" /\ call'.op = "reset_reaches"

\* C27 as stated: where a reach lies in no segment of period 0, or a segment
\* has no reach, reset_reaches() raises nothing and leaves every ireach as
\* it was.
C27_MismatchSilent ==
    [][(/\ ResetReachesCalled
        /\ StrayIseg(reach_data, segment_data) \/ EmptySegment(reach_data, segment_data))
       => /\ call'.err = "none"
          /\ SameRows(reach_data, reach_data')]_vars

\* C27, amended: a reset_reaches() that finds a segment numbered above the
\* largest iseg raises KeyError; otherwise one that finds a reach in no
\* segment of period 0 raises nothing; both leave every ireach as it was.
\* A segment without a reach that is not numbered above the largest iseg is
\* no mismatch: where every reach lies in a segment, the reaches of each
\* segment are numbered 1..k.
C27_MismatchHandled ==
    [][ResetReachesCalled =>
         IF SegmentAbove(reach_data, segment_data)
         THEN call'.err = "KeyError" /\ SameRows(reach_data, reach_data')
         ELSE IF StrayIseg(reach_data, segment_data)
         THEN call'.err = "none" /\ SameRows(reach_data, reach_data')
         ELSE call'.err = "none" /\ IreachDense(reach_data')]_vars

\* reset_reaches() has returned on a table with a reach in segment 3, which
\* no segment is, and the reaches of segment 1 are numbered 1 and 3 still.
C27_Witness ==
    /\ call.op = "reset_reaches" /\ call.err = "none"
    /\ \E i \in Rows(reach_data) : reach_data[i].iseg = MaxSegs
    /\ MaxSegs \notin Nsegs0(segment_data)
    /\ {reach_data[i].ireach : i \in ReachesOf(reach_data, 1)} = {1, 3}

(***************************************************************************)
(* to_riv that drops nothing.                                              *)
(***************************************************************************)
\* The reaches with their numbers and segments, and the segments of every
\* period.
NumberingOf(rd, sd) ==
    [reaches  |-> {<<rd[i].strtop, rd[i].node, rd[i].rno, rd[i].iseg>> : i \in Rows(rd)},
     segments |-> {<<sd[k].per, sd[k].nseg>> : k \in Rows(sd)}]

\* The step is a to_riv that was not to drop, or that selected nothing.
NotDropping ==
    /\ pc = "ready"
    /\ call'.op = "to_riv"
    /\ ~call'.args[3] \/ (~call'.args[1].some /\ ~call'.args[2].some)

C29_NoReachInRivCell ==
    [][Dropped =>
         NodesOf(reach_data, call'.riv.converted)
             \cap Range(Column(reach_data', "node")) = {}]_vars

\* to_riv with drop_in_sfr has returned, some reaches are left, and more
\* reaches are gone than were converted.
C29_Witness ==
    /\ call.op = "to_riv" /\ call.err = "none" /\ call.args[3]
    /\ call.args[1].some \/ call.args[2].some
    /\ Len(reach_data) > 0
    /\ Cardinality(call.riv.converted \ {0}) < RoutedReaches - Len(reach_data)

(***************************************************************************)
(* Datasets in which every reach is an outlet.                             *)
(***************************************************************************)
\* No reach has an outreach.
AllOutlets(rd) == \A i \in Rows(rd) : rd[i].outreach = 0

\* Tables handed to the constructor in which every reach is an outlet:
\* each segment has one reach and routes to no segment.
OutletsOnly(rd, sd) ==
    /\ \A k \in Rows(sd) : sd[k].outseg <= 0
    /\ \A i \in Rows(rd) : rd[i].iseg \in Nsegs0(sd)
    /\ \A s \in Nsegs0(sd) : Cardinality(ReachesOf(rd, s)) = 1

=============================================================================
